---- MODULE Spec2Model ----
(***************************************************************************)
(* Model of gatekeep's persona engine (src/src/gatekeep/personas.py):      *)
(* keyword routing, consult_persona, the multi-LLM consensus review, the   *)
(* team_review fan-out and the two-phase deployment_gate, as they run on   *)
(* one asyncio event loop; of the configuration loader                     *)
(* (src/src/gatekeep/loader.py) and the prompt builder; and of the init    *)
(* command (src/src/gatekeep/cli.py).                                      *)
(*                                                                         *)
(* Text whose characters matter (questions, keywords, environments) is a   *)
(* sequence of one-character strings; other text is a sequence of chunks,  *)
(* and an f-string is the concatenation of its chunks.                     *)
(***************************************************************************)
EXTENDS Integers, Sequences, FiniteSets, TLC

\* ------------------------------------------------------------------ bounds
\* Longest question, in words, that the routing specification draws.
MaxWords == 2
\* Number of top-level calls one process makes before the model stops.
MaxRuns == 2
\* Longest list of filenames handed to load_governance.
MaxFiles == 2
\* Number of times `gatekeep init` is run in one project directory.
MaxInits == 3

\* ------------------------------------------------------------ text helpers
UpperLetters ==
  <<"A","B","C","D","E","F","G","H","I","J","K","L","M",
    "N","O","P","Q","R","S","T","U","V","W","X","Y","Z">>

LowerLetters ==
  <<"a","b","c","d","e","f","g","h","i","j","k","l","m",
    "n","o","p","q","r","s","t","u","v","w","x","y","z">>

\* str.lower() on one character: an upper-case letter maps to its lower-case
\* letter, every other character to itself.
LowerChar(c) ==
  IF \E i \in 1..26 : UpperLetters[i] = c
  THEN LowerLetters[CHOOSE i \in 1..26 : UpperLetters[i] = c]
  ELSE c

\* str.lower()
Lower(s) == [i \in 1..Len(s) |-> LowerChar(s[i])]

\* str.upper()
UpperChar(c) ==
  IF \E n \in 1..26 : LowerLetters[n] = c
  THEN UpperLetters[CHOOSE n \in 1..26 : LowerLetters[n] = c]
  ELSE c

Upper(s) == [n \in 1..Len(s) |-> UpperChar(s[n])]

\* Python's `k in q` on strings: k occurs as a contiguous substring of q.
IsSubstr(k, q) ==
  \E i \in 0..(Len(q) - Len(k)) : SubSeq(q, i + 1, i + Len(k)) = k

\* " ".join(words)
RECURSIVE JoinWords(_)
JoinWords(ws) ==
  IF Len(ws) = 0 THEN <<>>
  ELSE IF Len(ws) = 1 THEN ws[1]
  ELSE ws[1] \o <<" ">> \o JoinWords(Tail(ws))

\* The literals the code compares against.
PRODUCTION == <<"p","r","o","d","u","c","t","i","o","n">>
PROD == <<"p","r","o","d">>

\* ---------------------------------------------------------- routing inputs
W_deploy == <<"d","e","p","l","o","y">>
W_Deploy == <<"D","e","p","l","o","y">>
W_security == <<"s","e","c","u","r","i","t","y">>
W_SECURITY == <<"S","E","C","U","R","I","T","Y">>
W_cost == <<"c","o","s","t">>
W_staging == <<"s","t","a","g","i","n","g">>
W_Production == <<"P","r","o","d","u","c","t","i","o","n">>
W_PROD == <<"P","R","O","D">>
W_product == <<"p","r","o","d","u","c","t">>
W_weather == <<"w","e","a","t","h","e","r">>
W_test == <<"t","e","s","t">>

Words ==
  { W_deploy, W_Deploy, W_security, W_SECURITY, W_cost, W_staging,
    PRODUCTION, W_Production, W_PROD, W_product, W_weather }

WordSeqs == UNION { [1..n -> Words] : n \in 1..MaxWords }

Questions == { JoinWords(ws) : ws \in WordSeqs }

\* A routing target as yaml gives it: a persona name, or a list of names.
One(p) == [list |-> FALSE, items |-> <<p>>]
Many(ps) == [list |-> TRUE, items |-> ps]
Rule(k, t) == [keyword |-> k, persona |-> t]

\* routing.keywords of personas.yaml, in file order.  The first is the shape
\* the tests pin down; the others reorder it, overlap keywords, use a
\* keyword with an upper-case letter, a longer list, and no keywords at all.
RoutingConfigs ==
  { << Rule(W_security, One("sentinel")), Rule(W_cost, One("auditor")),
       Rule(W_deploy, Many(<<"tester", "guardian">>)) >>,
    << Rule(W_deploy, Many(<<"tester", "guardian">>)),
       Rule(PROD, One("guardian")), Rule(W_security, One("sentinel")) >>,
    << Rule(W_Deploy, One("observer")), Rule(W_cost, Many(<<"auditor">>)),
       Rule(<<"s","t">>, Many(<<"tester", "observer", "guardian">>)),
       Rule(W_security, One("sentinel")) >>,
    << >> }

\* ------------------------------------------------------------------ routing
\* The body of the `for keyword, persona in keywords.items()` loop from
\* index i on, for the already lower-cased question q.
RECURSIVE RouteFrom(_, _, _)
RouteFrom(keywords, q, i) ==
  IF i > Len(keywords) THEN "reviewer"
  ELSE IF IsSubstr(keywords[i].keyword, q)
       THEN IF keywords[i].persona.list
            THEN IF IsSubstr(PRODUCTION, q) \/ IsSubstr(PROD, q)
                 THEN keywords[i].persona.items[Len(keywords[i].persona.items)]
                 ELSE keywords[i].persona.items[1]
            ELSE keywords[i].persona.items[1]
       ELSE RouteFrom(keywords, q, i + 1)

\* Mutant: the question is matched as typed, without lower-casing.
route_question_nolower(keywords, question) == RouteFrom(keywords, question, 1)

\* Mutant: a list target always yields its first element.
route_question_first(keywords, question) ==
  LET q == Lower(question)
      hits == { i \in 1..Len(keywords) : IsSubstr(keywords[i].keyword, q) }
  IN IF hits = {} THEN "reviewer"
     ELSE keywords[CHOOSE i \in hits : \A j \in hits : i <= j].persona.items[1]

route_question(keywords, question) == RouteFrom(keywords, Lower(question), 1)

\* ------------------------------------------------------------ Python values
\* A value is a str, an exception object or None.  v is the text of a str
\* and the message of an exception.
NoneVal == [t |-> "None", cls |-> "NoneType", v |-> <<>>]
StrVal(v) == [t |-> "str", cls |-> "str", v |-> v]
ExcVal(cls, msg) == [t |-> "exc", cls |-> cls, v |-> msg]

\* A dict, its items in insertion order.
DictVal(items) == [t |-> "dict", cls |-> "dict", v |-> items]

\* isinstance(x, Exception)
IsException(x) == x.t = "exc"

\* isinstance(x, str)
IsStr(x) == x.t = "str"

\* What f"{x}" puts into a string: the text itself, an exception's message,
\* or the word None.
Format(x) == IF x.t = "None" THEN <<"None">> ELSE x.v

\* `x or ''` followed by formatting, for an Optional[str].
OrEmpty(x) == IF x.t = "None" \/ x.v = <<>> THEN <<>> ELSE x.v

\* dict.get(key, default) on a mapping given as a TLA+ function.
Get(d, k, default) == IF k \in DOMAIN d THEN d[k] ELSE default

\* A YAML document is a mapping.  load_yaml gives the empty mapping for a
\* missing file and for a file without content.
EmptyDoc == [k \in {} |-> <<>>]

\* ------------------------------------------------------- configuration data
DEFAULT_MODEL == <<"anthropic", "claude-3.5-sonnet">>
DEFAULT_MODELS == << <<"anthropic", "claude-3.5-sonnet">>, <<"openai", "gpt-4o">> >>
CONSENSUS == <<"consensus">>

Persona(character, domain, model) ==
  [character |-> character, domain |-> domain, traits |-> <<"traits of ", character>>,
   model |-> model, governance |-> <<>>, standards |-> <<>>]

\* Two personas.yaml documents.  The first has the shape of the bundled file
\* that the tests describe.  The second leaves the auditor undefined, omits
\* `model` and `models` where the code supplies defaults, lists an
\* undefined persona and a consensus persona in the team_review workflow,
\* and has an entry without `character` and `traits` and an entry without
\* anything in it.
BundledYaml ==
  [personas |->
     [auditor |-> [governance |-> <<"cost-control.yaml">>]
                    @@ Persona("Auditor", "cost", <<"openai", "gpt-4o">>),
      sentinel |-> [governance |-> <<"security.yaml">>, standards |-> <<"owasp-top10">>]
                    @@ Persona("Sentinel", "security", <<"anthropic", "claude-3.5-sonnet">>),
      architect |-> [governance |-> <<"missing.yaml">>]
                    @@ Persona("Architect", "architecture", <<"google", "gemini">>),
      reviewer |-> [models |-> << <<"anthropic", "claude-3.5-sonnet">>, <<"openai", "gpt-4o">> >>,
                        emoji |-> "eye"]
                    @@ Persona("Reviewer", "code review", CONSENSUS),
      tester |-> Persona("Tester", "testing", <<"openai", "gpt-4o">>),
      guardian |-> Persona("Guardian", "production", <<"anthropic", "claude-3.5-sonnet">>)],
   team_review |->
     << <<"auditor", "Cost review">>, <<"sentinel", "Security review">>,
        <<"architect", "Architecture review">> >>]

SparseYaml ==
  [personas |->
     [sentinel |-> [character |-> "Sentinel", domain |-> "security",
                    traits |-> <<"traits of ", "Sentinel">>],
      reviewer |-> Persona("Reviewer", "code review", CONSENSUS),
      tester |-> [models |-> << <<"mistral", "large">> >>]
                    @@ Persona("Tester", "testing", CONSENSUS),
      guardian |-> [governance |-> <<"security.yaml", "missing.yaml", "security.yaml">>,
                    standards |-> <<"cis-aws-2.0", "pci-dss", "owasp-top10">>,
                    governance_mode |-> <<"s","t","r","i","c","t">>]
                    @@ Persona("Guardian", "production", <<"openai", "gpt-4o">>),
      intern |-> [domain |-> "chores", model |-> <<"openai", "gpt-4o">>,
                  governance |-> <<"security.yaml">>],
      ghost |-> EmptyDoc],
   team_review |->
     << <<"sentinel", "Security review">>, <<"reviewer", "Peer review">>,
        <<"nobody", "Anything">> >>]

Yamls == { BundledYaml, SparseYaml }

\* -------------------------------------------------------------------- files
File(doc) == [exists |-> TRUE, doc |-> doc]
NoFile == [exists |-> FALSE, doc |-> EmptyDoc]

\* load_yaml(path)
load_yaml(file) == IF ~file.exists THEN EmptyDoc ELSE file.doc

\* The name of a file of a standard, split at its dots: "iam.yaml" is
\* <<"iam", ".yaml">>.
YAML_EXT == ".yaml"
F_injection == <<"injection", YAML_EXT>>
F_iam == <<"iam", YAML_EXT>>
F_rules_v2 == <<"rules", ".v2", YAML_EXT>>
F_rules_yaml_v2 == <<"rules", YAML_EXT, ".v2", YAML_EXT>>
F_notes == <<"notes", ".yml">>

\* A standard's directory: its manifest.yaml and the other files in it.
StdDir(manifest, files) == [exists |-> TRUE, manifest |-> manifest, files |-> files]
NoDir == [exists |-> FALSE, manifest |-> NoFile, files |-> {}]

\* A manifest document with a `standard` entry.
Manifest(name, files) == [standard |-> [name |-> name, files |-> files]]

STANDARD_IDS == {"owasp-top10", "cis-aws-2.0"}

\* The governance files and standards present under the configuration root.
BundledFiles ==
  [governance |-> {"security.yaml", "cost-control.yaml", "architecture.yaml"},
   standards |->
     ("owasp-top10" :> StdDir(File(Manifest("OWASP Top 10", <<F_injection>>)),
                              {F_injection}))
     @@ ("cis-aws-2.0" :> StdDir(File(Manifest("CIS AWS", <<F_iam>>)), {F_iam}))]

\* ------------------------------------------------------------------ loader
\* personas.get("personas", {}).get(persona_name); None is NoneVal.
\* Mutant: an undefined persona gets the sentinel's configuration.
get_persona_config_fallback(yaml, persona_name) ==
  IF persona_name \in DOMAIN yaml.personas THEN yaml.personas[persona_name]
  ELSE yaml.personas.sentinel

get_persona_config(yaml, persona_name) ==
  IF persona_name \in DOMAIN yaml.personas THEN yaml.personas[persona_name]
  ELSE NoneVal

\* `not config`: None, or a mapping without entries.
IsFalsy(config) ==
  DOMAIN config = {} \/ ("t" \in DOMAIN config /\ config.t = "None")

\* The keys of a dict in insertion order, given the keys in the order they
\* were assigned: a key assigned again keeps its place.
RECURSIVE DictKeys(_)
DictKeys(assigned) ==
  IF assigned = <<>> THEN <<>>
  ELSE LET front == DictKeys(SubSeq(assigned, 1, Len(assigned) - 1))
           k == assigned[Len(assigned)]
       IN IF \E n \in 1..Len(front) : front[n] = k THEN front ELSE Append(front, k)

\* Mutant: every requested filename is loaded, on disk or not.
load_governance_unchecked(fs, files) == DictKeys(files)

\* The keys of the dict load_governance builds: the requested filenames
\* that exist.
load_governance(fs, files) == DictKeys(SelectSeq(files, LAMBDA f : f \in fs.governance))

\* filename.replace(".yaml", "")
domain_name(filename) == SelectSeq(filename, LAMBDA part : part # YAML_EXT)

\* standard["domains"][k] = v, the dict kept as the sequence of its items.
Put(d, k, v) ==
  IF \E n \in 1..Len(d) : d[n].key = k
  THEN [n \in 1..Len(d) |-> IF d[n].key = k THEN [key |-> k, val |-> v] ELSE d[n]]
  ELSE Append(d, [key |-> k, val |-> v])

\* The loop of load_standard over the files of the manifest; the content
\* of a file is named by the file.
RECURSIVE load_domains(_, _, _)
load_domains(dir, files, domains) ==
  IF files = <<>> THEN domains
  ELSE load_domains(dir, Tail(files),
                    IF Head(files) \in dir.files
                    THEN Put(domains, domain_name(Head(files)), Head(files))
                    ELSE domains)

\* The empty dict load_standard returns, and the dict it builds.
NoStandard == [empty |-> TRUE, manifest |-> EmptyDoc, domains |-> <<>>]

load_standard(fs, standard_id) ==
  LET dir == Get(fs.standards, standard_id, NoDir)
      manifest == load_yaml(dir.manifest)
  IN IF ~dir.exists THEN NoStandard
     ELSE IF IsFalsy(manifest) THEN NoStandard
     ELSE [empty |-> FALSE, manifest |-> manifest,
           domains |-> load_domains(dir, Get(Get(manifest, "standard", EmptyDoc),
                                             "files", <<>>), <<>>)]

\* The keys of the dict get_persona_standards builds: the configured
\* standards for which load_standard gives a non-empty dict.
get_persona_standards(fs, config) ==
  DictKeys(SelectSeq(Get(config, "standards", <<>>),
                 LAMBDA standard_id : ~load_standard(fs, standard_id).empty))

get_persona_governance(fs, config) ==
  load_governance(fs, Get(config, "governance", <<>>))

RECURSIVE Sections(_, _)
Sections(tag, keys) ==
  IF keys = <<>> THEN <<>> ELSE <<tag, Head(keys), "\n">> \o Sections(tag, Tail(keys))

NO_GOVERNANCE == <<"No specific governance rules loaded.">>
NO_STANDARDS == <<"No regulatory standards applicable.">>

\* Mutant: no placeholder for an empty dict.
format_governance_sections(governance) == Sections("# file ", governance)

format_governance_for_prompt(governance) ==
  IF governance = <<>> THEN NO_GOVERNANCE ELSE Sections("# file ", governance)

format_standards_for_prompt(standards) ==
  IF standards = <<>> THEN NO_STANDARDS ELSE Sections("# standard ", standards)

\* What each loader call opens or probes, in order: the directory and the
\* file or standard asked for.
Path(dir, id) == [dir |-> dir, id |-> id]
load_personas_reads == <<Path("personas", "personas.yaml")>>
load_governance_reads(files) == [n \in 1..Len(files) |-> Path("governance", files[n])]
load_standard_reads(standard_id) == <<Path("standards", standard_id)>>

RECURSIVE load_standards_reads(_)
load_standards_reads(ids) ==
  IF ids = <<>> THEN <<>>
  ELSE load_standard_reads(Head(ids)) \o load_standards_reads(Tail(ids))

get_persona_governance_reads(yaml, persona_name) ==
  LET config == get_persona_config(yaml, persona_name)
  IN load_personas_reads
     \o (IF IsFalsy(config) THEN <<>>
         ELSE load_governance_reads(Get(config, "governance", <<>>)))

get_persona_standards_reads(yaml, persona_name) ==
  LET config == get_persona_config(yaml, persona_name)
  IN load_personas_reads
     \o (IF IsFalsy(config) THEN <<>>
         ELSE load_standards_reads(Get(config, "standards", <<>>)))

load_all_for_persona_reads(yaml, persona_name) ==
  load_personas_reads
  \o (IF IsFalsy(get_persona_config(yaml, persona_name)) THEN <<>>
      ELSE get_persona_governance_reads(yaml, persona_name)
           \o get_persona_standards_reads(yaml, persona_name))

\* load_all_for_persona: the empty dict, or the dict of the configuration,
\* the loaded governance and standards and their texts.
NoData == [empty |-> TRUE, config |-> EmptyDoc, governance |-> <<>>, standards |-> <<>>,
           governance_text |-> <<>>, standards_text |-> <<>>]

load_all_for_persona(yaml, fs, persona_name) ==
  LET config == get_persona_config(yaml, persona_name)
  IN IF IsFalsy(config) THEN NoData
     ELSE LET gov == get_persona_governance(fs, config)
              std == get_persona_standards(fs, config)
          IN [empty |-> FALSE, config |-> config, governance |-> gov, standards |-> std,
              governance_text |-> format_governance_for_prompt(gov),
              standards_text |-> format_standards_for_prompt(std)]

\* ------------------------------------------------------------ prompt builder
UnknownPersona(persona_name) == ExcVal("ValueError", <<"Unknown persona: ", persona_name>>)

\* The keys build_system_prompt reads with config[...], in the order the
\* f-string reads them; the first one that is missing raises KeyError.
INDEXED == <<"character", "domain", "traits">>
KeyError(key) == ExcVal("KeyError", <<key>>)

STANDARD_MODE == <<"s","t","a","n","d","a","r","d">>
GOVERNANCE == "ORGANIZATIONAL GOVERNANCE ("
STANDARDS == "REGULATORY STANDARDS (MUST ENFORCE):"
TRAITS == "CHARACTER TRAITS:"
STYLE == "RESPONSE STYLE:"

\* build_system_prompt: the prompt as a str, or the exception it raises.
build_system_prompt(yaml, fs, persona_name) ==
  LET data == load_all_for_persona(yaml, fs, persona_name)
      config == data.config
      missing == SelectSeq(INDEXED, LAMBDA key : key \notin DOMAIN config)
  IN IF data.empty THEN UnknownPersona(persona_name)
     ELSE IF missing # <<>> THEN KeyError(Head(missing))
     ELSE StrVal(
       <<"You are ", config.character, ", providing ", config.domain, " guidance.",
         TRAITS>> \o config.traits
       \o (IF data.governance_text # NO_GOVERNANCE
           THEN <<GOVERNANCE>> \o Upper(Get(config, "governance_mode", STANDARD_MODE))
                \o <<" enforcement):">> \o data.governance_text
           ELSE <<>>)
       \o (IF data.standards_text # NO_STANDARDS
           THEN <<STANDARDS>> \o data.standards_text ELSE <<>>)
       \o <<STYLE>>)

\* build_system_prompt over the bundled files, for the personas of a
\* personas.yaml document: neither changes while a process runs.
Prompts(y) ==
  [persona_name \in DOMAIN y.personas |->
     build_system_prompt(y, BundledFiles, persona_name)]

\* -------------------------------------------------------------------- state
VARIABLES
  yaml,        \* the personas.yaml document in effect
  prompts,     \* what build_system_prompt gives for each persona of yaml
  _API_KEY,    \* personas._API_KEY, the cached key
  run,         \* the top-level coroutine handed to asyncio.run and where it is
  calls,       \* every consult_persona call made, in creation order
  queries,     \* every query_llm call made, in creation order
  reviews,     \* every _consensus_review call made
  ret,         \* what the top-level coroutine returned or raised
  runs,        \* top-level calls started so far
  finished,    \* the consult_persona calls in the order they finished
  keywords,    \* routing.keywords in effect
  question,    \* the question given to route_question
  routed,      \* what route_question returned
  fs,          \* governance/ and standards/ under the configuration root
  op,          \* the loader call made last: its name and argument
  out,         \* what that call returned or raised
  reads,       \* the files and directories that call opened or probed
  pkg,         \* the default directories the installed package holds
  project,     \* the entries of the project directory `gatekeep init` runs in
  before,      \* the project directory before the latest run of init
  first,       \* the project directory after the first run of init
  inits,       \* runs of init so far
  exit_code    \* exit code of the latest run of init

vars == <<yaml, prompts, _API_KEY, run, calls, queries, reviews, ret, runs, finished,
          keywords, question, routed, fs, op, out, reads,
          pkg, project, before, first, inits, exit_code>>

orch_vars == <<yaml, prompts, _API_KEY, run, calls, queries, reviews, ret, runs, finished>>
route_vars == <<keywords, question, routed>>
loader_vars == <<fs, op, out, reads>>
init_vars == <<pkg, project, before, first, inits, exit_code>>

NoKey == "unset"
EnvKey == "sk-env"
HomeKey == "sk-home"
PLACEHOLDER == "your_openrouter_api_key_here"

\* What get_api_key can find when it is called: the OPENROUTER_API_KEY
\* variable ("" when unset) and, for ./.env and ~/.gatekeep/.env, the values
\* of their OPENROUTER_API_KEY= lines (none when the file is absent).
KeySources ==
  { [getenv |-> "", files |-> << <<>>, <<>> >>],
    [getenv |-> "", files |-> << <<"">>, <<PLACEHOLDER>> >>],
    [getenv |-> EnvKey, files |-> << <<HomeKey>>, <<>> >>],
    [getenv |-> "", files |-> << <<PLACEHOLDER>>, <<"", HomeKey>> >>] }

\* get_api_key: the key it returns, or NoKey when it raises ValueError.
get_api_key(src) ==
  IF src.getenv # "" THEN src.getenv
  ELSE LET usable == SelectSeq(src.files[1] \o src.files[2],
                               LAMBDA val : val # "" /\ val # PLACEHOLDER)
       IN IF usable # <<>> THEN Head(usable) ELSE NoKey

Idle == [op |-> "idle", pc |-> "idle", persona |-> "", content |-> "",
         environment |-> <<>>, context |-> NoneVal]
NoRet == [st |-> "none", val |-> NoneVal]

Finished == {"returned", "raised"}
NoSub == [kind |-> "none", id |-> 0]

\* ------------------------------------------------------------------- inputs
Contents == {"API v2"}
Contexts == {NoneVal, StrVal(<<"Lambda 256MB">>)}
Environments ==
  { PRODUCTION, W_Production, W_PROD, W_test, W_staging }
AskPersonas == {"sentinel", "reviewer", "intern", "nobody"}

\* What the endpoint can do with one request: answer, or fail (a status
\* other than 200, a timeout, a connection error).
Outcomes ==
  { StrVal(<<"reply A">>), StrVal(<<"reply B">>),
    ExcVal("RuntimeError", <<"OpenRouter API error 500: ", "overloaded">>) }

\* ------------------------------------------------------------- query_llm
NewQuery(model, system_prompt, user_prompt, context, owner) ==
  [model |-> model, system_prompt |-> system_prompt, user_prompt |-> user_prompt,
   context |-> context, owner |-> owner, st |-> "scheduled", sent |-> FALSE,
   lookup |-> "pending", auth |-> NoKey, result |-> NoneVal]

KeyNotFound == ExcVal("ValueError", <<"OPENROUTER_API_KEY not found.">>)

\* Mutant: the key is resolved anew by every call.
query_llm_begin_reread(q, key, src) ==
  IF get_api_key(src) # NoKey
  THEN [query |-> [q EXCEPT !.st = "inflight", !.sent = TRUE, !.lookup = "resolved",
                            !.auth = get_api_key(src)],
        key |-> get_api_key(src)]
  ELSE [query |-> [q EXCEPT !.st = "raised", !.lookup = "failed", !.result = KeyNotFound],
        key |-> key]

\* query_llm up to its first suspension: resolve the key if none is cached,
\* then send the request with the cached key in its Authorization header.
\* src is what get_api_key can find at that moment.  `lookup` records
\* whether the call used the cache, resolved the key or failed to.
query_llm_begin(q, key, src) ==
  IF key # NoKey
  THEN [query |-> [q EXCEPT !.st = "inflight", !.sent = TRUE, !.lookup = "cached",
                            !.auth = key],
        key |-> key]
  ELSE IF get_api_key(src) # NoKey
       THEN [query |-> [q EXCEPT !.st = "inflight", !.sent = TRUE, !.lookup = "resolved",
                                 !.auth = get_api_key(src)],
             key |-> get_api_key(src)]
       ELSE [query |-> [q EXCEPT !.st = "raised", !.lookup = "failed",
                                 !.result = KeyNotFound],
             key |-> key]

\* --------------------------------------------------------- consult_persona
NewCall(persona_name, q, context, role) ==
  [persona |-> persona_name, question |-> q, context |-> context, role |-> role,
   st |-> "scheduled", result |-> NoneVal, sub |-> NoSub]

persona_model(config) == Get(config, "model", DEFAULT_MODEL)

\* Mutant: the persona is looked up only after a request has gone out.
consult_unknown_late(c, qs, rs, key) ==
  [call |-> [c EXCEPT !.st = "raised", !.result = UnknownPersona(c.persona)],
   queries |-> Append(qs, [NewQuery(DEFAULT_MODEL, <<>>, c.question, c.context, NoSub)
                             EXCEPT !.st = "inflight", !.sent = TRUE]),
   reviews |-> rs, key |-> key]

\* consult_persona for a persona without configuration: it raises before
\* anything else happens.
consult_unknown(c, qs, rs, key) ==
  [call |-> [c EXCEPT !.st = "raised", !.result = UnknownPersona(c.persona)],
   queries |-> qs, reviews |-> rs, key |-> key]

\* The queries _consensus_review creates, one per configured model.
consensus_tasks(models, system_prompt, q, context, rid) ==
  [k \in 1..Len(models) |->
     NewQuery(models[k], system_prompt, q, context, [kind |-> "review", id |-> rid])]

\* consult_persona from its start to its first suspension, for call i.
\* ("eye" stands for the default emoji of the consensus report.)
\* sp[persona_name] is what build_system_prompt(persona_name) gives.
\* Gives the call, the query and review logs and the cached key afterwards.
consult_begin(y, sp, c, i, qs, rs, key, src) ==
  LET config == get_persona_config(y, c.persona)
  IN IF IsFalsy(config)
     THEN consult_unknown(c, qs, rs, key)
     ELSE
       LET built == sp[c.persona]
           system_prompt == built.v
           model == persona_model(config)
       IN IF IsException(built)
          THEN [call |-> [c EXCEPT !.st = "raised", !.result = built],
                queries |-> qs, reviews |-> rs, key |-> key]
          ELSE IF model = CONSENSUS
          THEN LET rid == Len(rs) + 1
                   models == Get(config, "models", DEFAULT_MODELS)
                   tasks == consensus_tasks(models, system_prompt, c.question, c.context, rid)
               IN [call |-> [c EXCEPT !.st = "awaiting",
                                      !.sub = [kind |-> "review", id |-> rid]],
                   queries |-> qs \o tasks,
                   reviews |-> Append(rs, [persona |-> c.persona, call |-> i,
                                           models |-> models,
                                           emoji |-> Get(config, "emoji", "eye"),
                                           first |-> Len(qs) + 1, st |-> "gathering"]),
                   key |-> key]
          ELSE LET qid == Len(qs) + 1
                   b == query_llm_begin(
                          NewQuery(model, system_prompt, c.question, c.context,
                                   [kind |-> "call", id |-> i]), key, src)
               IN [call |-> IF b.query.st = "raised"
                            THEN [c EXCEPT !.st = "raised", !.result = b.query.result,
                                           !.sub = [kind |-> "query", id |-> qid]]
                            ELSE [c EXCEPT !.st = "awaiting",
                                           !.sub = [kind |-> "query", id |-> qid]],
                   queries |-> Append(qs, b.query),
                   reviews |-> rs,
                   key |-> b.key]

\* ------------------------------------------------------------------ gather
\* asyncio.gather(*aws, return_exceptions=True): the results (values and
\* exception objects alike) in the order the awaitables were passed.
gather(cs, idxs) == [k \in 1..Len(idxs) |-> cs[idxs[k]].result]

\* Mutant: gather resumes its caller as soon as one awaitable has finished.
all_finished_any(cs, idxs) == \E k \in 1..Len(idxs) : cs[idxs[k]].st \in Finished

\* Mutant: gather waits until every awaitable has returned a value.
all_finished_ok(cs, idxs) == \A k \in 1..Len(idxs) : cs[idxs[k]].st = "returned"

\* The future gather returns is done when every awaitable has finished.
all_finished(cs, idxs) == \A k \in 1..Len(idxs) : cs[idxs[k]].st \in Finished

\* -------------------------------------------------------- _consensus_review
Last(seq) == seq[Len(seq)]

\* Mutant: a failed model aborts the report with that model's error.
consensus_section_plain(model, resp) ==
  <<"**", Last(model), "**:\n">> \o resp.v \o <<"\n\n">>

\* One "**name**: ..." section of the report.
consensus_section(model, resp) ==
  IF IsException(resp)
  THEN <<"**", Last(model), "**: Error -- ">> \o Format(resp) \o <<"\n\n">>
  ELSE <<"**", Last(model), "**:\n">> \o resp.v \o <<"\n\n">>

\* The report: a header, one section per (model, response) pair of the zip,
\* a footer.  Each section is kept as one chunk.
consensus_report(emoji, models, responses) ==
  StrVal(<< <<emoji, " Peer Review (Multi-LLM Consensus)\n\n">> >>
         \o [k \in 1..Len(models) |-> consensus_section(models[k], responses[k])]
         \o << <<"---\n*Consensus review from multiple perspectives*">> >>)

\* -------------------------------------------------------------- team_review
\* Mutant: every task is created for the first persona of the workflow.
team_review_tasks_first(y, content, context) ==
  [k \in 1..Len(y.team_review) |->
     NewCall(y.team_review[1][1], <<y.team_review[k][2], ": ", content>>, context, "gather")]

\* The `tasks` dict: one consult_persona coroutine per workflow persona.
team_review_tasks(y, content, context) ==
  [k \in 1..Len(y.team_review) |->
     NewCall(y.team_review[k][1], <<y.team_review[k][2], ": ", content>>, context, "gather")]

\* Mutant: an exception object is stored as it is.
team_review_results_raw(names, responses) ==
  [i \in 1..Len(names) |-> [k |-> names[i], v |-> responses[i]]]

\* The `results` dict built from zip(tasks.keys(), responses).
team_review_results(names, responses) ==
  [i \in 1..Len(names) |->
     [k |-> names[i],
      v |-> IF IsException(responses[i])
            THEN StrVal(<<"Error: ">> \o Format(responses[i]))
            ELSE responses[i]]]

\* ---------------------------------------------------------- deployment_gate
CHECK_NAMES == <<"auditor", "sentinel">>

\* Mutant: the environment is compared as typed.
approver_of_exact(environment) ==
  IF environment = PRODUCTION THEN "guardian" ELSE "tester"

approver_of(environment) ==
  IF Lower(environment) = PRODUCTION THEN "guardian" ELSE "tester"

\* checks = dict(zip(check_tasks.keys(), check_responses))
gate_checks(names, responses) ==
  [i \in 1..Len(names) |-> [k |-> names[i], v |-> responses[i]]]

\* checks.get(name, 'Error')
CheckOf(checks, name) ==
  IF \E k \in 1..Len(checks) : checks[k].k = name
  THEN checks[CHOOSE k \in 1..Len(checks) : checks[k].k = name].v
  ELSE StrVal(<<"Error">>)

\* Mutant: the two check outcomes are written under each other's label.
approval_ctx_swapped(checks, context) ==
  StrVal(<<"Cost: ">> \o Format(CheckOf(checks, "sentinel"))
         \o <<"\nSecurity: ">> \o Format(CheckOf(checks, "auditor"))
         \o <<"\n">> \o OrEmpty(context))

approval_ctx(checks, context) ==
  StrVal(<<"Cost: ">> \o Format(CheckOf(checks, "auditor"))
         \o <<"\nSecurity: ">> \o Format(CheckOf(checks, "sentinel"))
         \o <<"\n">> \o OrEmpty(context))

approval_question(environment, deployment_plan) ==
  <<"Approve deployment to ">> \o environment \o <<"?\n\nPlan: ", deployment_plan>>

\* The dict deployment_gate returns once the approval call has returned.
gate_result(r, cs) ==
  [checks |-> gate_checks(CHECK_NAMES, gather(cs, <<1, 2>>)),
   approver |-> approver_of(r.environment),
   approval |-> cs[3].result,
   environment |-> r.environment]

\* Mutant: a failed approval is reported inside a result instead of raised.
Settle_swallow(r, cs) ==
  IF r.op = "consult" /\ cs[1].st \in Finished
  THEN [run |-> [r EXCEPT !.pc = "done"],
        ret |-> [st |-> cs[1].st, val |-> cs[1].result]]
  ELSE IF r.op = "deployment_gate" /\ r.pc = "approval" /\ cs[3].st \in Finished
  THEN [run |-> [r EXCEPT !.pc = "done"],
        ret |-> [st |-> "returned", val |-> gate_result(r, cs)]]
  ELSE [run |-> r, ret |-> ret]

\* What the top-level coroutine does when one of its calls has just changed:
\* a directly awaited call that finished ends it in the same step.
Settle(r, cs) ==
  IF r.op = "consult" /\ cs[1].st \in Finished
  THEN [run |-> [r EXCEPT !.pc = "done"],
        ret |-> [st |-> cs[1].st, val |-> cs[1].result]]
  ELSE IF r.op = "deployment_gate" /\ r.pc = "approval" /\ cs[3].st \in Finished
  THEN [run |-> [r EXCEPT !.pc = "done"],
        ret |-> IF cs[3].st = "raised"
                THEN [st |-> "raised", val |-> cs[3].result]
                ELSE [st |-> "returned", val |-> gate_result(r, cs)]]
  ELSE [run |-> r, ret |-> ret]

\* The order of completion, extended by the calls that cs shows finished
\* and that were not finished before.
Completion(cs) ==
  finished \o SelectSeq([k \in 1..Len(cs) |-> k],
                        LAMBDA k : /\ cs[k].st \in Finished
                                   /\ \A n \in 1..Len(finished) : finished[n] # k)

\* ----------------------------------------------------------------- init
\* The entries `gatekeep init` looks at, the directories first.
SUBDIRS == {"governance", "personas", "standards"}
ENTRIES == SUBDIRS \cup {"gatekeep.yaml", ".env.example"}

\* An entry is absent, holds what init puts there, or holds something else.
Absent == "absent"
Default == "default"
Custom == "custom"

\* Mutant: gatekeep.yaml is written whether or not it exists.
init_rewrite(package, p) ==
  [e \in ENTRIES |->
     IF e = "gatekeep.yaml" THEN Default
     ELSE IF p[e] # Absent THEN p[e]
     ELSE IF e \in SUBDIRS /\ e \notin package THEN Absent
     ELSE Default]

\* The project directory after init: a directory is copied when the
\* package has it and the project has not, a file is written when the
\* project has not got it.
init(package, p) ==
  [e \in ENTRIES |->
     IF p[e] # Absent THEN p[e]
     ELSE IF e \in SUBDIRS /\ e \notin package THEN Absent
     ELSE Default]

\* ------------------------------------------------------------ idle parts
NoOp == [name |-> "none", arg |-> ""]

NoLoaderCall ==
  /\ fs = BundledFiles
  /\ op = NoOp
  /\ out = NoneVal
  /\ reads = <<>>

NoInitRun ==
  /\ pkg = SUBDIRS
  /\ project = [e \in ENTRIES |-> Absent]
  /\ before = [e \in ENTRIES |-> Absent]
  /\ first = [e \in ENTRIES |-> Absent]
  /\ inits = 0
  /\ exit_code = 0

\* ------------------------------------------------------------------ actions
\* In the actions, an intermediate value of the handler is bound by
\* \E x \in {e}, which evaluates e once.
Init ==
  /\ yaml \in Yamls
  /\ prompts = Prompts(yaml)
  /\ _API_KEY = NoKey
  /\ run = Idle
  /\ calls = <<>>
  /\ queries = <<>>
  /\ reviews = <<>>
  /\ ret = NoRet
  /\ runs = 0
  /\ finished = <<>>
  /\ keywords = <<>>
  /\ question = <<>>
  /\ routed = NoRet
  /\ NoLoaderCall
  /\ NoInitRun

\* asyncio.run(consult_persona(persona, question, context)), as `gatekeep ask`.
ConsultStart ==
  /\ run.op = "idle" /\ runs < MaxRuns
  /\ \E p \in AskPersonas, ctx \in Contexts :
       /\ run' = [Idle EXCEPT !.op = "consult", !.pc = "await", !.persona = p,
                              !.content = "Is this safe?", !.context = ctx]
       /\ calls' = <<NewCall(p, <<"Is this safe?">>, ctx, "main")>>
  /\ runs' = runs + 1
  /\ UNCHANGED <<yaml, prompts, _API_KEY, queries, reviews, ret, finished, route_vars, loader_vars, init_vars>>

\* team_review up to `await asyncio.gather(...)`.
TeamReviewStart ==
  /\ run.op = "idle" /\ runs < MaxRuns
  /\ \E content \in Contents, ctx \in Contexts :
       /\ run' = [Idle EXCEPT !.op = "team_review", !.pc = "gather",
                              !.content = content, !.context = ctx]
       /\ calls' = team_review_tasks(yaml, content, ctx)
  /\ runs' = runs + 1
  /\ UNCHANGED <<yaml, prompts, _API_KEY, queries, reviews, ret, finished, route_vars, loader_vars, init_vars>>

\* deployment_gate up to its first `await asyncio.gather(...)`.
DeploymentGateStart ==
  /\ run.op = "idle" /\ runs < MaxRuns
  /\ \E plan \in Contents, env \in Environments, ctx \in Contexts :
       /\ run' = [Idle EXCEPT !.op = "deployment_gate", !.pc = "checks",
                              !.content = plan, !.environment = env, !.context = ctx]
       /\ calls' = << NewCall("auditor", <<"Cost check for deployment: ", plan>>, ctx, "check"),
                      NewCall("sentinel", <<"Security check for deployment: ", plan>>, ctx, "check") >>
  /\ runs' = runs + 1
  /\ UNCHANGED <<yaml, prompts, _API_KEY, queries, reviews, ret, finished, route_vars, loader_vars, init_vars>>

\* The event loop runs a scheduled consult_persona task up to its first
\* suspension (or to its end, when it raises before suspending).
TaskStep(i) ==
  /\ calls[i].st = "scheduled"
  /\ \E src \in KeySources :
     \E b \in {consult_begin(yaml, prompts, calls[i], i, queries, reviews, _API_KEY, src)} :
     \E cs \in {[calls EXCEPT ![i] = b.call]} :
     \E s \in {Settle(run, cs)} :
          /\ calls' = cs
          /\ finished' = Completion(cs)
          /\ queries' = b.queries
          /\ reviews' = b.reviews
          /\ _API_KEY' = b.key
          /\ run' = s.run
          /\ ret' = s.ret
  /\ UNCHANGED <<yaml, prompts, runs, route_vars, loader_vars, init_vars>>

\* The event loop runs a query_llm task of a consensus review up to its
\* first suspension.
QueryTaskStep(j) ==
  /\ queries[j].st = "scheduled"
  /\ \E src \in KeySources :
       LET b == query_llm_begin(queries[j], _API_KEY, src)
       IN /\ queries' = [queries EXCEPT ![j] = b.query]
          /\ _API_KEY' = b.key
  /\ UNCHANGED <<yaml, prompts, run, calls, reviews, ret, runs, finished, route_vars, loader_vars, init_vars>>

\* The request of query j ends: the endpoint answered, or the request
\* failed.  A consult_persona call awaiting the query directly ends with it.
HttpResponse(j) ==
  /\ queries[j].st = "inflight"
  /\ \E o \in Outcomes :
     \E st \in {IF IsException(o) THEN "raised" ELSE "returned"} :
     \E own \in {queries[j].owner} :
     \E cs \in {IF own.kind = "call"
                 THEN [calls EXCEPT ![own.id].st = st, ![own.id].result = o]
                 ELSE calls} :
     \E s \in {Settle(run, cs)} :
          /\ queries' = [queries EXCEPT ![j].st = st, ![j].result = o]
          /\ calls' = cs
          /\ finished' = Completion(cs)
          /\ run' = s.run
          /\ ret' = s.ret
  /\ UNCHANGED <<yaml, prompts, _API_KEY, reviews, runs, route_vars, loader_vars, init_vars>>

\* The queries of review r, in the order of its models.
ReviewQueries(r) == [k \in 1..Len(reviews[r].models) |-> reviews[r].first + k - 1]

\* _consensus_review resumes after its gather, builds the report and
\* returns it; the consult_persona call that delegated to it returns it.
ConsensusResume(r) ==
  /\ reviews[r].st = "gathering"
  /\ all_finished(queries, ReviewQueries(r))
  /\ \E report \in {consensus_report(reviews[r].emoji, reviews[r].models,
                                        gather(queries, ReviewQueries(r)))} :
     \E i \in {reviews[r].call} :
     \E cs \in {[calls EXCEPT ![i].st = "returned", ![i].result = report]} :
     \E s \in {Settle(run, cs)} :
        /\ reviews' = [reviews EXCEPT ![r].st = "done"]
        /\ calls' = cs
        /\ finished' = Completion(cs)
        /\ run' = s.run
        /\ ret' = s.ret
  /\ UNCHANGED <<yaml, prompts, _API_KEY, queries, runs, route_vars, loader_vars, init_vars>>

\* team_review resumes after its gather and returns the results dict.
TeamReviewResume ==
  /\ run.op = "team_review" /\ run.pc = "gather"
  /\ all_finished(calls, [k \in 1..Len(calls) |-> k])
  /\ run' = [run EXCEPT !.pc = "done"]
  /\ ret' = [st |-> "returned",
             val |-> DictVal(team_review_results([k \in 1..Len(calls) |-> calls[k].persona],
                                                 gather(calls, [k \in 1..Len(calls) |-> k])))]
  /\ UNCHANGED <<yaml, prompts, _API_KEY, calls, queries, reviews, runs, finished, route_vars, loader_vars, init_vars>>

\* deployment_gate resumes after the gather of its checks, picks the
\* approver and runs the approval call up to its first suspension.
GateResume ==
  /\ run.op = "deployment_gate" /\ run.pc = "checks"
  /\ all_finished(calls, <<1, 2>>)
  /\ \E src \in KeySources :
     \E checks \in {gate_checks(CHECK_NAMES, gather(calls, <<1, 2>>))} :
     \E approver \in {approver_of(run.environment)} :
     \E c \in {NewCall(approver, approval_question(run.environment, run.content),
                        approval_ctx(checks, run.context), "approval")} :
     \E b \in {consult_begin(yaml, prompts, c, 3, queries, reviews, _API_KEY, src)} :
     \E cs \in {Append(calls, b.call)} :
     \E s \in {Settle([run EXCEPT !.pc = "approval"], cs)} :
          /\ calls' = cs
          /\ finished' = Completion(cs)
          /\ queries' = b.queries
          /\ reviews' = b.reviews
          /\ _API_KEY' = b.key
          /\ run' = s.run
          /\ ret' = s.ret
  /\ UNCHANGED <<yaml, prompts, runs, route_vars, loader_vars, init_vars>>

\* The caller has the outcome; the process goes on to its next call.  The
\* module-level _API_KEY outlives the call.
NextCall ==
  /\ run.pc = "done" /\ runs < MaxRuns
  /\ run' = Idle
  /\ calls' = <<>>
  /\ queries' = <<>>
  /\ reviews' = <<>>
  /\ ret' = NoRet
  /\ finished' = <<>>
  /\ UNCHANGED <<yaml, prompts, _API_KEY, runs, route_vars, loader_vars, init_vars>>

Next ==
  \/ ConsultStart
  \/ TeamReviewStart
  \/ DeploymentGateStart
  \/ \E i \in 1..Len(calls) : TaskStep(i)
  \/ \E j \in 1..Len(queries) : QueryTaskStep(j)
  \/ \E j \in 1..Len(queries) : HttpResponse(j)
  \/ \E r \in 1..Len(reviews) : ConsensusResume(r)
  \/ TeamReviewResume
  \/ GateResume
  \/ NextCall

Spec == Init /\ [][Next]_vars

\* The event loop runs every task that is ready and resumes every coroutine
\* whose awaited future is done; every request ends, with an answer or with
\* an error, the total timeout of 60 seconds being the latest moment.
Progress ==
  \/ \E i \in 1..Len(calls) : TaskStep(i)
  \/ \E j \in 1..Len(queries) : QueryTaskStep(j)
  \/ \E j \in 1..Len(queries) : HttpResponse(j)
  \/ \E r \in 1..Len(reviews) : ConsensusResume(r)
  \/ TeamReviewResume
  \/ GateResume

Fairness == WF_vars(Progress)

FairSpec == Spec /\ Fairness

\* ------------------------------------------------- routing as a specification
InitRoute ==
  /\ yaml = BundledYaml
  /\ prompts = Prompts(yaml)
  /\ _API_KEY = NoKey
  /\ run = Idle
  /\ calls = <<>>
  /\ queries = <<>>
  /\ reviews = <<>>
  /\ ret = NoRet
  /\ runs = 0
  /\ finished = <<>>
  /\ keywords \in RoutingConfigs
  /\ question \in Questions
  /\ routed = NoRet
  /\ NoLoaderCall
  /\ NoInitRun

\* asyncio.run(route_question(question)), as `gatekeep route`.
RouteQuestion ==
  /\ routed.st = "none"
  /\ routed' = [st |-> "returned", val |-> route_question(keywords, question)]
  /\ UNCHANGED <<orch_vars, keywords, question, loader_vars, init_vars>>

NextRoute == RouteQuestion

SpecRoute == InitRoute /\ [][NextRoute]_vars

\* --------------------------------------------------- the loader, call by call
\* The filenames asked of load_governance, the standards asked of
\* load_standard and the persona names asked of the other calls.
RequestNames == {"security.yaml", "cost-control.yaml", "missing.yaml"}
FileLists == UNION { [1..n -> RequestNames] : n \in 0..MaxFiles }
RequestIds == STANDARD_IDS \cup {"pci-dss"}
LoaderNames == {"sentinel", "guardian", "intern", "ghost", "nobody"}

\* The states a standard's directory can be in: absent; without manifest;
\* with an empty manifest; with a manifest that has no `standard` entry;
\* with a manifest that lists a file twice and a missing file, beside a
\* file it does not list; with a manifest whose files carry ".yaml" inside
\* their names.
StdDirs ==
  { NoDir,
    StdDir(NoFile, {F_injection}),
    StdDir(File(EmptyDoc), {F_injection}),
    StdDir(File([title |-> "draft"]), {F_injection}),
    StdDir(File(Manifest("OWASP Top 10", <<F_injection, F_iam, F_injection>>)),
           {F_injection, F_notes}),
    StdDir(File(Manifest("House rules", <<F_rules_v2, F_rules_yaml_v2, F_notes>>)),
           {F_rules_v2, F_rules_yaml_v2, F_notes}) }

GovDirs ==
  { {}, {"security.yaml"}, {"cost-control.yaml", "architecture.yaml"},
    {"security.yaml", "cost-control.yaml", "architecture.yaml"} }

Disks == [governance : GovDirs, standards : [STANDARD_IDS -> StdDirs]]

InitLoader ==
  /\ yaml \in Yamls
  /\ prompts = Prompts(yaml)
  /\ _API_KEY = NoKey
  /\ run = Idle
  /\ calls = <<>>
  /\ queries = <<>>
  /\ reviews = <<>>
  /\ ret = NoRet
  /\ runs = 0
  /\ finished = <<>>
  /\ keywords = <<>>
  /\ question = <<>>
  /\ routed = NoRet
  /\ fs \in Disks
  /\ op = NoOp
  /\ out = NoneVal
  /\ reads = <<>>
  /\ NoInitRun

\* Each loader call, from entry to return.
LoadGovernance ==
  /\ \E files \in FileLists :
       /\ op' = [name |-> "load_governance", arg |-> files]
       /\ out' = load_governance(fs, files)
       /\ reads' = load_governance_reads(files)
  /\ UNCHANGED <<orch_vars, route_vars, fs, init_vars>>

LoadStandard ==
  /\ \E standard_id \in RequestIds :
       /\ op' = [name |-> "load_standard", arg |-> standard_id]
       /\ out' = load_standard(fs, standard_id)
       /\ reads' = load_standard_reads(standard_id)
  /\ UNCHANGED <<orch_vars, route_vars, fs, init_vars>>

GetPersonaConfig ==
  /\ \E persona_name \in LoaderNames :
       /\ op' = [name |-> "get_persona_config", arg |-> persona_name]
       /\ out' = get_persona_config(yaml, persona_name)
       /\ reads' = load_personas_reads
  /\ UNCHANGED <<orch_vars, route_vars, fs, init_vars>>

GetPersonaGovernance ==
  /\ \E persona_name \in LoaderNames :
     \E config \in {get_persona_config(yaml, persona_name)} :
       /\ op' = [name |-> "get_persona_governance", arg |-> persona_name]
       /\ out' = IF IsFalsy(config) THEN <<>> ELSE get_persona_governance(fs, config)
       /\ reads' = get_persona_governance_reads(yaml, persona_name)
  /\ UNCHANGED <<orch_vars, route_vars, fs, init_vars>>

GetPersonaStandards ==
  /\ \E persona_name \in LoaderNames :
     \E config \in {get_persona_config(yaml, persona_name)} :
       /\ op' = [name |-> "get_persona_standards", arg |-> persona_name]
       /\ out' = IF IsFalsy(config) THEN <<>> ELSE get_persona_standards(fs, config)
       /\ reads' = get_persona_standards_reads(yaml, persona_name)
  /\ UNCHANGED <<orch_vars, route_vars, fs, init_vars>>

LoadAllForPersona ==
  /\ \E persona_name \in LoaderNames :
       /\ op' = [name |-> "load_all_for_persona", arg |-> persona_name]
       /\ out' = load_all_for_persona(yaml, fs, persona_name)
       /\ reads' = load_all_for_persona_reads(yaml, persona_name)
  /\ UNCHANGED <<orch_vars, route_vars, fs, init_vars>>

BuildSystemPrompt ==
  /\ \E persona_name \in LoaderNames :
       /\ op' = [name |-> "build_system_prompt", arg |-> persona_name]
       /\ out' = build_system_prompt(yaml, fs, persona_name)
       /\ reads' = load_all_for_persona_reads(yaml, persona_name)
  /\ UNCHANGED <<orch_vars, route_vars, fs, init_vars>>

NextLoader ==
  \/ LoadGovernance
  \/ LoadStandard
  \/ GetPersonaConfig
  \/ GetPersonaGovernance
  \/ GetPersonaStandards
  \/ LoadAllForPersona
  \/ BuildSystemPrompt

SpecLoader == InitLoader /\ [][NextLoader]_vars

\* ------------------------------------------------------- `gatekeep init`
Projects == [ENTRIES -> {Absent, Default, Custom}]

InitProject ==
  /\ yaml = BundledYaml
  /\ prompts = Prompts(yaml)
  /\ _API_KEY = NoKey
  /\ run = Idle
  /\ calls = <<>>
  /\ queries = <<>>
  /\ reviews = <<>>
  /\ ret = NoRet
  /\ runs = 0
  /\ finished = <<>>
  /\ keywords = <<>>
  /\ question = <<>>
  /\ routed = NoRet
  /\ NoLoaderCall
  /\ pkg \in SUBSET SUBDIRS
  /\ project \in Projects
  /\ before = project
  /\ first = project
  /\ inits = 0
  /\ exit_code = 0

\* One run of `gatekeep init`, from start to exit.
RunInit ==
  /\ inits < MaxInits
  /\ \E after \in {init(pkg, project)} :
       /\ before' = project
       /\ project' = after
       /\ first' = IF inits = 0 THEN after ELSE first
  /\ inits' = inits + 1
  /\ exit_code' = 0
  /\ UNCHANGED <<orch_vars, route_vars, loader_vars, pkg>>

NextInit == RunInit

SpecInit == InitProject /\ [][NextInit]_vars

\* ------------------------------------------------------------------- claims
CallIds == 1..Len(calls)
QueryIds == 1..Len(queries)
ReviewIds == 1..Len(reviews)

\* The value stored under key `name` in a dict given as a sequence of items.
Keys(d) == { d[n].k : n \in 1..Len(d) }
Entry(d, name) == d[CHOOSE n \in 1..Len(d) : d[n].k = name].v

StartsWith(text, prefix) ==
  Len(text) >= Len(prefix) /\ SubSeq(text, 1, Len(prefix)) = prefix

TeamReviewDone == run.op = "team_review" /\ run.pc = "done"
GateReturned == run.op = "deployment_gate" /\ run.pc = "done" /\ ret.st = "returned"

\* C1: team_review never raises because a persona's call raised; in the
\* mapping it returns, the entry of every persona whose call raised is a str
\* beginning with "Error: ", and the entry of every persona whose call
\* returned is exactly that call's response.
C1_TeamReviewIsolatesFailures ==
  /\ run.op = "team_review" => ret.st # "raised"
  /\ TeamReviewDone =>
       /\ ret.st = "returned"
       /\ \A i \in CallIds :
            /\ calls[i].st = "raised" =>
                 /\ IsStr(Entry(ret.val.v, calls[i].persona))
                 /\ StartsWith(Entry(ret.val.v, calls[i].persona).v, <<"Error: ">>)
            /\ calls[i].st = "returned" =>
                 Entry(ret.val.v, calls[i].persona) = calls[i].result

\* C1 witness: a team review has returned with a failed and a successful
\* persona side by side.
C1_Witness ==
  /\ TeamReviewDone
  /\ \E i, j \in CallIds : calls[i].st = "raised" /\ calls[j].st = "returned"

\* The entry team_review owes persona call i: its response, or "Error: "
\* followed by the text of what it raised.
Outcome(i) ==
  IF calls[i].st = "raised"
  THEN StrVal(<<"Error: ">> \o calls[i].result.v)
  ELSE calls[i].result

\* C2: team_review makes exactly one consult_persona call per persona of
\* workflows.team_review.personas, asking "<prompt_suffix>: <content>" with
\* the caller's context; the mapping it returns has exactly those personas
\* as keys, each with the outcome of its own call, in whatever order the
\* calls finished.
C2_TeamReviewFanOut ==
  run.op = "team_review" =>
    /\ Len(calls) = Len(yaml.team_review)
    /\ \A k \in CallIds :
         /\ calls[k].persona = yaml.team_review[k][1]
         /\ calls[k].question = <<yaml.team_review[k][2], ": ", run.content>>
         /\ calls[k].context = run.context
    /\ run.pc = "done" =>
         /\ Len(ret.val.v) = Len(yaml.team_review)
         /\ Keys(ret.val.v) = { yaml.team_review[k][1] : k \in 1..Len(yaml.team_review) }
         /\ \A k \in CallIds : Entry(ret.val.v, calls[k].persona) = Outcome(k)

\* C2 witness: a team review has returned after its calls finished in an
\* order other than the one they were made in, with differing entries.
C2_Witness ==
  /\ TeamReviewDone
  /\ Len(finished) = 3 /\ finished[1] = 3 /\ finished[3] = 1
  /\ Entry(ret.val.v, calls[1].persona) # Entry(ret.val.v, calls[3].persona)

\* The queries made on behalf of consult_persona call i, directly or through
\* its consensus review.
QueriesOf(i) ==
  { j \in QueryIds :
      \/ queries[j].owner = [kind |-> "call", id |-> i]
      \/ /\ queries[j].owner.kind = "review"
         /\ reviews[queries[j].owner.id].call = i }

Approvals == { i \in CallIds : calls[i].role = "approval" }

\* C3: in deployment_gate the auditor and the sentinel check are started
\* together; at most one approval call is made, and only once both checks
\* have finished, so that no request of a check is still open beside it.
C3_GateTwoPhase ==
  run.op = "deployment_gate" =>
    /\ Len(calls) >= 2
    /\ calls[1].persona = "auditor" /\ calls[1].role = "check"
    /\ calls[2].persona = "sentinel" /\ calls[2].role = "check"
    /\ Cardinality(Approvals) <= 1
    /\ \A i \in CallIds : calls[i].role = "check" => i \in {1, 2}
    /\ \A a \in Approvals :
         /\ calls[1].st \in Finished /\ calls[2].st \in Finished
         /\ \A j \in QueriesOf(1) \cup QueriesOf(2) : queries[j].st \in Finished

\* C3 witness: the approval call is waiting for its answer after one check
\* returned and the other raised.
C3_Witness ==
  /\ run.op = "deployment_gate"
  /\ \E a \in Approvals : calls[a].st = "awaiting"
  /\ calls[1].st = "raised" /\ calls[2].st = "returned"

\* a and b are equal up to letter case.
SameIgnoringCase(a, b) ==
  Len(a) = Len(b) /\ \A n \in 1..Len(a) : LowerChar(a[n]) = LowerChar(b[n])

\* C4: the approval call goes to "guardian" exactly when the environment is
\* "production" up to letter case, and to "tester" otherwise; the result's
\* "approver" is the persona that call went to and its "environment" is the
\* argument as given.
C4_GateApprover ==
  run.op = "deployment_gate" =>
    /\ \A a \in Approvals :
         /\ calls[a].persona = "guardian" <=> SameIgnoringCase(run.environment, PRODUCTION)
         /\ calls[a].persona # "guardian" => calls[a].persona = "tester"
    /\ GateReturned =>
         /\ \A a \in Approvals : ret.val.approver = calls[a].persona
         /\ Approvals # {}
         /\ ret.val.environment = run.environment

\* C4 witness: a gate for "Production" has returned with the guardian as
\* its approver.
C4_Witness ==
  /\ GateReturned
  /\ run.environment = W_Production
  /\ ret.val.approver = "guardian"

\* C5: every value of the "checks" mapping deployment_gate returns is a
\* str, a check that raised being represented by the text of its error.
C5_GateChecksAreStrings ==
  GateReturned => \A n \in 1..Len(ret.val.checks) : IsStr(ret.val.checks[n].v)

\* C5 witness of the divergence: a gate has returned although a check raised.
C5_CheckRaised ==
  GateReturned /\ \E i \in {1, 2} : calls[i].st = "raised"

\* The positions of the routing keywords that occur in the lower-cased
\* question, and the first of them in configured order.
Hits == { n \in 1..Len(keywords) : IsSubstr(keywords[n].keyword, Lower(question)) }
FirstHit == CHOOSE n \in Hits : \A m \in Hits : n <= m

MentionsProduction ==
  IsSubstr(PRODUCTION, Lower(question)) \/ IsSubstr(PROD, Lower(question))

\* C6: route_question returns the persona of the first keyword, in
\* configured order, that occurs in the lower-cased question, wherever the
\* keywords stand in the question, and "reviewer" when none occurs;
\* questions that differ only in letter case get the same persona.
C6_RouteFirstConfiguredMatch ==
  routed.st = "returned" =>
    /\ Hits = {} => routed.val = "reviewer"
    /\ Hits # {} =>
         /\ \E n \in 1..Len(keywords[FirstHit].persona.items) :
              routed.val = keywords[FirstHit].persona.items[n]
         /\ ~keywords[FirstHit].persona.list =>
              routed.val = keywords[FirstHit].persona.items[1]
    /\ \A other \in {Lower(question), Upper(question)} :
         SameIgnoringCase(other, question) /\ route_question(keywords, other) = routed.val

\* C6 witness: an upper-case question in which "deploy" stands before
\* "security" has been routed by the keyword configured first, "security".
C6_Witness ==
  /\ routed.st = "returned"
  /\ question = JoinWords(<<W_Deploy, W_SECURITY>>)
  /\ Len(keywords) = 3 /\ keywords[1].keyword = W_security
  /\ routed.val = "sentinel"

\* C7: when the first matching keyword maps to a list, route_question
\* returns the list's last element if the lower-cased question contains
\* "production" or "prod" and its first element otherwise; with "deploy"
\* mapped to [tester, guardian] a deploy question goes to the guardian if
\* it mentions production and to the tester if it does not.
C7_RouteListTarget ==
  (routed.st = "returned" /\ Hits # {} /\ keywords[FirstHit].persona.list) =>
    /\ routed.val = IF MentionsProduction
                    THEN Last(keywords[FirstHit].persona.items)
                    ELSE keywords[FirstHit].persona.items[1]
    /\ ( /\ keywords[FirstHit].keyword = W_deploy
         /\ keywords[FirstHit].persona.items = <<"tester", "guardian">> )
       => routed.val = IF MentionsProduction THEN "guardian" ELSE "tester"

\* C7 witness: "Deploy PROD" has been routed to the guardian through the
\* list configured for "deploy".
C7_Witness ==
  /\ routed.st = "returned"
  /\ question = JoinWords(<<W_Deploy, W_PROD>>)
  /\ Hits # {} /\ keywords[FirstHit].keyword = W_deploy
  /\ routed.val = "guardian"

Started == { i \in CallIds : calls[i].st # "scheduled" }
Known(i) == calls[i].persona \in DOMAIN yaml.personas
DirectQueries(i) == { j \in QueryIds : queries[j].owner = [kind |-> "call", id |-> i] }
ReviewsOf(i) == { r \in ReviewIds : reviews[r].call = i }

\* C8: consult_persona for a persona that the configuration does not define
\* raises ValueError("Unknown persona: <name>") and makes no LLM query:
\* neither query_llm nor the consensus review is called.
C8_ConsultUnknownRaises ==
  /\ \A i \in Started :
       ~Known(i) =>
         /\ calls[i].st = "raised"
         /\ calls[i].result = ExcVal("ValueError", <<"Unknown persona: ", calls[i].persona>>)
         /\ DirectQueries(i) = {} /\ ReviewsOf(i) = {}
  /\ \A j \in QueryIds :
       \/ queries[j].owner.kind = "call" /\ Known(queries[j].owner.id)
       \/ queries[j].owner.kind = "review" /\ Known(reviews[queries[j].owner.id].call)

\* C8 witness: consult_persona("nobody", ...) has raised.
C8_Witness ==
  \E i \in Started : calls[i].persona = "nobody" /\ calls[i].st = "raised"

\* The model the configuration names for call i's persona.
ModelOf(i) ==
  IF "model" \in DOMAIN yaml.personas[calls[i].persona]
  THEN yaml.personas[calls[i].persona].model
  ELSE <<"anthropic", "claude-3.5-sonnet">>

\* C9: a started consult_persona call for a known persona whose model is
\* "consensus" has delegated to exactly one consensus review and made no
\* query of its own; otherwise it has made exactly one query_llm call, with
\* the persona's model (anthropic/claude-3.5-sonnet when none is
\* configured), that persona's system prompt, the question and the
\* context, and it ends with that call's outcome unchanged.
C9_ConsultDispatch ==
  \A i \in Started :
    Known(i) =>
      IF ModelOf(i) = <<"consensus">>
      THEN Cardinality(ReviewsOf(i)) = 1 /\ DirectQueries(i) = {}
      ELSE /\ Cardinality(DirectQueries(i)) = 1 /\ ReviewsOf(i) = {}
           /\ \A j \in DirectQueries(i) :
                /\ queries[j].model = ModelOf(i)
                /\ queries[j].system_prompt[2] = yaml.personas[calls[i].persona].character
                /\ queries[j].system_prompt = build_system_prompt(yaml, BundledFiles, calls[i].persona).v
                /\ queries[j].user_prompt = calls[i].question
                /\ queries[j].context = calls[i].context
                /\ queries[j].st \in Finished =>
                     calls[i].st = queries[j].st /\ calls[i].result = queries[j].result
                /\ calls[i].st \in Finished => queries[j].st = calls[i].st

\* The queries whose owner is review r.
OwnedBy(r) == { j \in QueryIds : queries[j].owner = [kind |-> "review", id |-> r] }

\* C10: a consensus review makes exactly one query per configured model,
\* all of them created together; it never raises because a query failed;
\* its report has one section per model in configured order, an "Error"
\* section with the error's text for a model whose query raised and the
\* model's own response for every other.
C10_ConsensusIsolation ==
  \A r \in ReviewIds :
    LET n == Len(reviews[r].models)
        i == reviews[r].call
        report == calls[i].result.v
    IN /\ Cardinality(OwnedBy(r)) = n
       /\ OwnedBy(r) = { reviews[r].first + k - 1 : k \in 1..n }
       /\ \A k \in 1..n : queries[reviews[r].first + k - 1].model = reviews[r].models[k]
       /\ calls[i].st # "raised"
       /\ calls[i].st = "returned" <=> reviews[r].st = "done"
       /\ reviews[r].st = "done" =>
            /\ IsStr(calls[i].result)
            /\ Len(report) = n + 2
            /\ \A k \in 1..n :
                 LET q == queries[reviews[r].first + k - 1]
                     name == reviews[r].models[k][Len(reviews[r].models[k])]
                 IN /\ q.st \in Finished
                    /\ q.st = "raised" =>
                         report[k + 1] = <<"**", name, "**: Error -- ">> \o q.result.v \o <<"\n\n">>
                    /\ q.st = "returned" =>
                         report[k + 1] = <<"**", name, "**:\n">> \o q.result.v \o <<"\n\n">>

\* C10 witness: a review over two models has returned its report although
\* both queries raised, one of them without a key to send a request with.
C10_Witness ==
  \E r \in ReviewIds :
    /\ reviews[r].st = "done" /\ Len(reviews[r].models) = 2
    /\ \A j \in OwnedBy(r) : queries[j].st = "raised"
    /\ \E j \in OwnedBy(r) : ~queries[j].sent
    /\ \E j \in OwnedBy(r) : queries[j].sent

\* C17: deployment_gate returns a result exactly when its approval call
\* returns.  A check that raised neither keeps the approval call from being
\* made nor makes the gate raise: the gate ends only after its one approval
\* call, with that call's exception and no result if it raised.
C17_GateReturnsIffApproved ==
  run.op = "deployment_gate" =>
    /\ run.pc = "checks" => ret.st = "none" /\ Approvals = {}
    /\ run.pc \in {"approval", "done"} => Cardinality(Approvals) = 1
    /\ run.pc = "approval" => ret.st = "none"
    /\ run.pc = "done" =>
         \A a \in Approvals :
           /\ ret.st = calls[a].st
           /\ calls[a].st = "returned" =>
                /\ ret.val.approval = calls[a].result
                /\ Len(ret.val.checks) = 2
           /\ calls[a].st = "raised" => ret.val = calls[a].result

\* C17 witness: both checks raised, the approval call was made and returned,
\* and the gate returned its result.
C17_Witness ==
  /\ GateReturned
  /\ calls[1].st = "raised" /\ calls[2].st = "raised"
  /\ \E a \in Approvals : calls[a].st = "returned"

\* The text the approval context owes check call i: its response, or the
\* text of the error it raised.
CheckText(i) == calls[i].result.v

\* C18: the context of the approval call is "Cost: " with the auditor's
\* outcome, then "Security: " with the sentinel's outcome (the response, or
\* the error's text), then the caller's context if there is one, whichever
\* check finished first.
C18_ApprovalContext ==
  run.op = "deployment_gate" =>
    \A a \in Approvals :
      /\ IsStr(calls[a].context)
      /\ calls[a].context.v =
           <<"Cost: ">> \o CheckText(1) \o <<"\nSecurity: ">> \o CheckText(2) \o <<"\n">>
           \o (IF run.context = NoneVal THEN <<>> ELSE run.context.v)
      /\ \A j \in DirectQueries(a) : queries[j].context = calls[a].context

\* C18 witness: the sentinel finished before the auditor, one with a
\* response and one with an error, and the approval call has been sent with
\* the caller's context.
C18_Witness ==
  /\ run.op = "deployment_gate"
  /\ Len(finished) >= 2 /\ finished[1] = 2 /\ finished[2] = 1
  /\ calls[1].st = "returned" /\ calls[2].st = "raised"
  /\ run.context # NoneVal
  /\ \E a \in Approvals : DirectQueries(a) # {}

Begun == { j \in QueryIds : queries[j].st # "scheduled" }

\* The queries that begin in the step at hand.
Beginning ==
  { j \in 1..Len(queries') :
      /\ queries'[j].st # "scheduled"
      /\ j > Len(queries) \/ queries[j].st = "scheduled" }

\* C19, in every state: a query_llm call whose key resolution failed
\* raised ValueError without sending a request; a request is sent only
\* with a key, and that key is the one cached; at most one call of a run
\* resolved the key, every other request used the cache.
C19_KeyState ==
  /\ \A j \in Begun :
       /\ queries[j].lookup \in {"cached", "resolved", "failed"}
       /\ queries[j].lookup = "failed" <=> ~queries[j].sent
       /\ ~queries[j].sent =>
            /\ queries[j].st = "raised" /\ queries[j].result.cls = "ValueError"
            /\ queries[j].auth = NoKey
       /\ queries[j].sent => queries[j].auth # NoKey /\ queries[j].auth = _API_KEY
  /\ Cardinality({ j \in Begun : queries[j].lookup = "resolved" }) <= 1

\* C19, in every step: a cached key never changes; a call beginning while
\* a key is cached does not resolve it again; a call beginning while none is
\* cached attempts resolution, and leaves the key unset when that fails.
C19_KeyStep ==
  /\ _API_KEY # NoKey => _API_KEY' = _API_KEY
  /\ \A j \in Beginning :
       /\ _API_KEY # NoKey <=> queries'[j].lookup = "cached"
       /\ queries'[j].lookup = "failed" => _API_KEY' = NoKey
       /\ queries'[j].lookup = "resolved" => _API_KEY' = queries'[j].auth

\* C19: query_llm resolves the API key at most once per process: a failed
\* resolution raises ValueError, sends nothing and leaves the key unset for
\* the next call to retry; a resolved key is cached, used by every later
\* call (also the concurrent calls of a fan-out) and never re-read or changed.
C19_KeyResolvedOnce == [](C19_KeyState) /\ [][C19_KeyStep]_vars

\* C19 witness: in one fan-out a call failed to resolve the key, a later one
\* resolved it and a third used the cached key.
C19_Witness ==
  \E a, b, c \in Begun :
    /\ a < b /\ b < c
    /\ queries[a].lookup = "failed"
    /\ queries[b].lookup = "resolved" /\ queries[b].auth = HomeKey
    /\ queries[c].lookup = "cached" /\ queries[c].auth = HomeKey

InWorkflow == run.op \in {"team_review", "deployment_gate"}

\* Nothing that the running workflow started is still outstanding.
NothingOutstanding ==
  /\ \A i \in CallIds : calls[i].st \in Finished
  /\ \A j \in QueryIds : queries[j].st \in Finished
  /\ \A r \in ReviewIds : reviews[r].st = "done"

\* C20: with every request ending sooner or later, team_review eventually
\* returns its mapping and deployment_gate eventually returns its result or
\* raises; neither has ended while a call or request of its own is open.
C20_FanInCompletes ==
  /\ []((InWorkflow /\ run.pc = "done") => NothingOutstanding)
  /\ (run.op = "team_review") ~> (TeamReviewDone /\ ret.st = "returned")
  /\ (run.op = "deployment_gate") ~>
       (run.op = "deployment_gate" /\ run.pc = "done" /\ ret.st \in Finished)

\* C20 witness: a team review that went through a consensus review and had
\* a failing persona has returned with nothing left open.
C20_Witness ==
  /\ TeamReviewDone /\ NothingOutstanding
  /\ reviews # <<>>
  /\ \E i \in CallIds : calls[i].st = "raised"

\* ------------------------------------------- claims about loader and prompt
Called(name) == op.name = name
Defined(persona_name) == persona_name \in DOMAIN yaml.personas
Prompt == out.v
At(chunk) == { n \in 1..Len(Prompt) : Prompt[n] = chunk }

\* The governance files and the standards the disk holds for the persona
\* the call names, read off the configuration and the disk.
Configured(key) == Get(yaml.personas[op.arg], key, <<>>)
GovernanceOnDisk ==
  { f \in { Configured("governance")[n] : n \in 1..Len(Configured("governance")) } :
      f \in fs.governance }
Loads(standard_id) ==
  /\ standard_id \in DOMAIN fs.standards
  /\ fs.standards[standard_id].exists
  /\ fs.standards[standard_id].manifest.exists
  /\ DOMAIN fs.standards[standard_id].manifest.doc # {}
StandardsOnDisk ==
  { id \in { Configured("standards")[n] : n \in 1..Len(Configured("standards")) } :
      Loads(id) }

\* C11: a prompt build_system_prompt returns begins with the character line
\* and the traits and ends with the response-style block; between them the
\* governance section is there exactly if some governance file of the
\* persona was loaded and the standards section exactly if some standard
\* was loaded, the governance section first; neither placeholder text is
\* part of the prompt.
C11_PromptStructure ==
  (Called("build_system_prompt") /\ IsStr(out)) =>
    LET config == yaml.personas[op.arg]
        head == <<"You are ", config.character, ", providing ", config.domain,
                  " guidance.", TRAITS>> \o config.traits
    IN /\ StartsWith(Prompt, head)
       /\ At(STYLE) = {Len(Prompt)}
       /\ (At(GOVERNANCE) # {}) <=> (GovernanceOnDisk # {})
       /\ (At(STANDARDS) # {}) <=> (StandardsOnDisk # {})
       /\ \A g \in At(GOVERNANCE) : Len(head) < g /\ g < Len(Prompt)
       /\ \A st \in At(STANDARDS) : Len(head) < st /\ st < Len(Prompt)
       /\ \A g \in At(GOVERNANCE), st \in At(STANDARDS) : g < st
       /\ Cardinality(At(GOVERNANCE)) <= 1 /\ Cardinality(At(STANDARDS)) <= 1
       /\ \A n \in 1..Len(Prompt) : <<Prompt[n]>> # NO_GOVERNANCE /\ <<Prompt[n]>> # NO_STANDARDS

\* C11 witness: a prompt was built for a persona whose configured governance
\* files are all missing while one of its standards loads.
C11_Witness ==
  /\ Called("build_system_prompt") /\ IsStr(out)
  /\ Configured("governance") # <<>> /\ GovernanceOnDisk = {}
  /\ StandardsOnDisk # {}

\* C12: build_system_prompt raises ValueError("Unknown persona: <name>")
\* exactly for the names without a non-empty entry in the configuration,
\* and returns a prompt for every name that has one.
C12_PromptForEveryEntry ==
  Called("build_system_prompt") =>
    LET entry == Defined(op.arg) /\ DOMAIN yaml.personas[op.arg] # {}
    IN /\ (out.t = "exc" /\ out.cls = "ValueError") <=> ~entry
       /\ ~entry => out.v = <<"Unknown persona: ", op.arg>>
       /\ entry => IsStr(out)

\* C13: for a persona name that the configuration does not have,
\* get_persona_config returns None, get_persona_governance,
\* get_persona_standards and load_all_for_persona return an empty dict, and
\* nothing but personas.yaml is opened or probed.
C13_AbsentPersonaLoadsNothing ==
  (op.name \in {"get_persona_config", "get_persona_governance", "get_persona_standards",
                "load_all_for_persona"} /\ ~Defined(op.arg)) =>
    /\ Called("get_persona_config") => out = NoneVal
    /\ Called("get_persona_governance") => out = <<>>
    /\ Called("get_persona_standards") => out = <<>>
    /\ Called("load_all_for_persona") => out.empty
    /\ reads # <<>>
    /\ \A n \in 1..Len(reads) : reads[n] = Path("personas", "personas.yaml")

\* C13 witness: load_all_for_persona was called for a name that is not
\* configured, on a disk that has governance files and a loadable standard.
C13_Witness ==
  /\ Called("load_all_for_persona") /\ ~Defined(op.arg)
  /\ fs.governance # {} /\ \E id \in STANDARD_IDS : Loads(id)

\* C14: the keys of the dict load_governance returns are the requested
\* filenames that exist in the governance directory, each once: an existing
\* requested file is a key, a missing one is left out, a file that was not
\* requested is no key.
C14_LoadGovernanceKeys ==
  Called("load_governance") =>
    /\ { out[n] : n \in 1..Len(out) } = { op.arg[n] : n \in 1..Len(op.arg) } \cap fs.governance
    /\ \A n, m \in 1..Len(out) : out[n] = out[m] => n = m

\* C14 witness: load_governance was asked for a file that exists and one
\* that does not, while the directory has a file that was not asked for.
C14_Witness ==
  /\ Called("load_governance")
  /\ \E n, m \in 1..Len(op.arg) : op.arg[n] \in fs.governance /\ op.arg[m] \notin fs.governance
  /\ \E f \in fs.governance : \A n \in 1..Len(op.arg) : op.arg[n] # f
  /\ out # <<>>

\* A filename without its .yaml extension.
WithoutExtension(filename) ==
  IF filename # <<>> /\ filename[Len(filename)] = YAML_EXT
  THEN SubSeq(filename, 1, Len(filename) - 1)
  ELSE filename

\* C15: load_standard returns an empty dict when the standard's directory
\* does not exist or its manifest is missing or empty; otherwise it returns
\* the manifest and, under "domains", exactly the files the manifest lists
\* that exist, each under its filename without the .yaml extension.
\* get_persona_standards has a standard only if load_standard gave a
\* non-empty dict for it.
C15_LoadStandard ==
  /\ Called("load_standard") =>
       IF ~Loads(op.arg) THEN out.empty
       ELSE LET dir == fs.standards[op.arg]
                files == Get(Get(dir.manifest.doc, "standard", EmptyDoc), "files", <<>>)
                loaded == { f \in { files[n] : n \in 1..Len(files) } : f \in dir.files }
            IN /\ ~out.empty
               /\ out.manifest = dir.manifest.doc
               /\ Len(out.domains) = Cardinality(loaded)
               /\ \A f \in loaded :
                    \E n \in 1..Len(out.domains) :
                      out.domains[n] = [key |-> WithoutExtension(f), val |-> f]
  /\ Called("get_persona_standards") =>
       \A n \in 1..Len(out) : Loads(out[n])

\* ------------------------------------------------- claims about `gatekeep init`
\* C16: a run of init exits with code 0, leaves every entry that existed as
\* it was and creates an entry only where there was none; every run after
\* the first leaves the project directory as the first run left it.
C16_InitIdempotent ==
  inits > 0 =>
    /\ exit_code = 0
    /\ \A e \in ENTRIES : before[e] # Absent => project[e] = before[e]
    /\ \A e \in ENTRIES : project[e] # before[e] => before[e] = Absent /\ project[e] = Default
    /\ project = first

\* C16 witness: init has run more than once in a project that had its own
\* gatekeep.yaml and lacked a directory, which the first run created.
C16_Witness ==
  /\ inits >= 2
  /\ project["gatekeep.yaml"] = Custom
  /\ \E e \in SUBDIRS : e \in pkg /\ first[e] = Default
  /\ project[".env.example"] = Default

====
